---- MODULE Spec2Model ----
(***************************************************************************)
(* Macro-expansion queries of hir-expand (crates/hir-expand/src/db.rs):    *)
(* interning of macro calls, macro_arg, censor_for_macro_input,            *)
(* macro_expand, expand_proc_macro, check_tt_count, expand_speculative     *)
(* and the memo tables the queries are served from.                        *)
(*                                                                         *)
(* Abstractions.  A syntax node is a record holding what db.rs reads of    *)
(* it: its class, the kinds of its first and last child-or-token, the      *)
(* sequence of its doc comments and attributes, and the number of tokens   *)
(* its lowering has.  A token tree (tt::Subtree) is a record holding its   *)
(* delimiter, where it came from, the node it was lowered from, the        *)
(* attribute positions censored from it and its token count.  The          *)
(* expanders (mbe, the built-in table, the proc-macro server) are black    *)
(* boxes: a deterministic one answers from the oracle fixed in the         *)
(* initial state, the procedural one answers anything at each invocation.  *)
(***************************************************************************)
EXTENDS Integers, Sequences, FiniteSets, TLC

\* static TOKEN_LIMIT: Limit = Limit::new(1_048_576)
TOKEN_LIMIT == 1048576

\* Longest sequence of doc comments and attributes on a modelled item.
MaxAttrs == 3
\* Size of the intern table.
MaxCalls == 3

--------------------------------------------------------------------------
(* Syntax nodes *)

NoChild == "none"
OpenKinds == {"(", "[", "{"}
TokenKinds == {"(", ")", "[", "]", "{", "}", "ident"}
AttrEntries == {"doc", "derive", "attr"}

RECURSIVE SeqsUpTo(_, _)
SeqsUpTo(S, n) ==
    IF n = 0 THEN {<<>>}
    ELSE LET shorter == SeqsUpTo(S, n - 1)
         IN shorter \cup {Append(s, x) : s \in {t \in shorter : Len(t) = n - 1}, x \in S}

MkNode(cls, first, last, weight, attrs, adt) ==
    [cls |-> cls, first |-> first, last |-> last, weight |-> weight,
     attrs |-> attrs, adt |-> adt]

\* ast::MacroCall::token_tree() of a call that has none
MissingNode == MkNode("MISSING", NoChild, NoChild, 0, <<>>, FALSE)

\* The argument token-tree nodes of function-like calls: a token tree opens
\* with a delimiter and ends with whatever token the user typed last; an
\* empty node stands for the `map_or(T![.], ..)` default.  A balanced
\* argument may also be larger than the token limit.
ArgNodes ==
    {MkNode("TOKEN_TREE", f, l, 2, <<>>, FALSE) : f \in OpenKinds, l \in TokenKinds}
    \cup {MkNode("TOKEN_TREE", NoChild, NoChild, 0, <<>>, FALSE)}
    \cup {MkNode("TOKEN_TREE", "(", ")", TOKEN_LIMIT + 1, <<>>, FALSE)}

\* Items carrying doc comments and attributes, in source order.
ItemNode(attrs, adt) == MkNode("ITEM", NoChild, NoChild, 3 + Len(attrs), attrs, adt)
ItemNodes == {ItemNode(a, TRUE) : a \in SeqsUpTo(AttrEntries, MaxAttrs)}

--------------------------------------------------------------------------
(* Token trees, errors and results *)

UNSPECIFIED == "invisible"

MkTree(kind, delimiter, node, censored, count) ==
    [kind |-> kind, delimiter |-> delimiter, node |-> node,
     censored |-> censored, count |-> count]

\* tt::Subtree { delimiter: UNSPECIFIED, token_trees: vec![] } / Subtree::empty()
EmptySubtree == MkTree("empty", UNSPECIFIED, MissingNode, {}, 0)

\* Absent Option<Arc<tt::Subtree>>
NoTree == MkTree("absent", UNSPECIFIED, MissingNode, {}, 0)

\* ExpandError::other(..); `produced` and `limit` are the numbers the
\* limit diagnostic is formatted with.
MkErr(msg, produced, limit) == [msg |-> msg, produced |-> produced, limit |-> limit]
NoErr == MkErr("none", 0, 0)
OtherErr(msg) == MkErr(msg, 0, 0)

\* ExpandResult<T> / ValueResult<T, E>
MkResult(value, err) == [value |-> value, err |-> err]

\* What a query run did besides computing its value: the expanders it
\* invoked with the input each received, and whether it aborted.
MkRun(res, invoked, panicked) == [res |-> res, invoked |-> invoked, panicked |-> panicked]
Invocation(expander, input, output) ==
    [expander |-> expander, input |-> input, output |-> output]
PanicRun == MkRun(MkResult(NoTree, NoErr), {}, TRUE)

--------------------------------------------------------------------------
(* Macro definitions and call locations *)

Crates == {"krate_a", "krate_b"}
DefCrate == "krate_a"

MkDef(kind, expander, compiles) ==
    [kind |-> kind, expander |-> expander, krate |-> DefCrate, compiles |-> compiles]

MkKind(tag, node, index) == [tag |-> tag, node |-> node, index |-> index]

\* EagerCallInfo { arg, error, .. } recorded at collection time
EagerArg == MkTree("eager_arg", "paren", MissingNode, {}, 2)
NoEager == [some |-> FALSE, arg |-> NoTree, error |-> NoErr]
EagerInfos ==
    {NoEager} \cup {[some |-> TRUE, arg |-> EagerArg, error |-> e] :
                        e \in {NoErr, OtherErr("eager collection error")}}

MkLoc(def, krate, kind, eager) == [def |-> def, krate |-> krate, kind |-> kind, eager |-> eager]

is_proc_macro(def) == def.kind = "ProcMacro"
is_attribute_derive(def) == def.kind = "BuiltInAttr" /\ def.expander = "derive"
is_include(def) == def.kind = "BuiltInEager" /\ def.expander = "include"

\* Positions (1-based) of the entries of an item that are attributes.
AttrPositions(node) == {i \in 1..Len(node.attrs) : node.attrs[i] # "doc"}
DerivePositions(node) == {i \in 1..Len(node.attrs) : node.attrs[i] = "derive"}

\* Definitions a function-like call can name, with the calling crate.
FnLikeDefs ==
    {MkDef("Declarative", "-", c) : c \in BOOLEAN}
    \cup {MkDef("BuiltIn", "-", TRUE), MkDef("ProcMacro", "-", TRUE)}
    \cup {MkDef("BuiltInEager", e, TRUE) : e \in {"include", "concat"}}
CallerCrates(def) == IF def.kind = "Declarative" THEN Crates ELSE {DefCrate}

\* Function-like calls; only these carry eager-call info.
FnLikeLocs ==
    {MkLoc(d, k, MkKind("FnLike", n, 0), e) :
        d \in FnLikeDefs, k \in Crates, n \in ArgNodes \cup {MissingNode}, e \in EagerInfos}

\* Derive calls: derive_attr_index is the position of the invoking
\* `#[derive(..)]` among the item's doc comments and attributes (AttrId::ast_index).
DeriveDefs == {MkDef("BuiltInDerive", "-", TRUE), MkDef("ProcMacro", "-", TRUE)}
DeriveLocs ==
    {MkLoc(d, DefCrate, MkKind("Derive", ip[1], ip[2] - 1), NoEager) :
        d \in DeriveDefs,
        ip \in {q \in ItemNodes \X (1..MaxAttrs) : q[2] \in DerivePositions(q[1])}}

\* Attribute calls: invoc_attr_index is the position of the invoking attribute,
\* the `#[derive(..)]` itself for the built-in derive attribute.
AttrDefs == {MkDef("BuiltInAttr", "derive", TRUE), MkDef("BuiltInAttr", "test", TRUE),
             MkDef("ProcMacro", "-", TRUE)}
InvokingPositions(def, node) ==
    IF is_attribute_derive(def) THEN DerivePositions(node)
    ELSE AttrPositions(node) \ DerivePositions(node)
AttrLocs ==
    {MkLoc(dip[1], DefCrate, MkKind("Attr", dip[2], dip[3] - 1), NoEager) :
        dip \in {q \in AttrDefs \X ItemNodes \X (1..MaxAttrs) :
                    q[3] \in InvokingPositions(q[1], q[2])}}

Locs == {l \in FnLikeLocs : l.krate \in CallerCrates(l.def)} \cup DeriveLocs \cup AttrLocs

--------------------------------------------------------------------------
(* macro_arg and censoring *)

\* The first `n` elements of the set of positions `S`, in source order.
TakePositions(S, n) == {i \in S : Cardinality({j \in S : j < i}) < n}

\* A censoring that counts the invoking attribute among the attributes only,
\* doc comments skipped.
censor_for_macro_input_NthAttr(loc, node) ==
    CASE loc.kind.tag = "FnLike" -> {}
      [] loc.kind.tag = "Derive" ->
            IF node.cls # "ITEM" THEN {}
            ELSE TakePositions(AttrPositions(node), loc.kind.index + 1)
                    \cap DerivePositions(node)
      [] loc.kind.tag = "Attr" /\ is_attribute_derive(loc.def) -> {}
      [] OTHER ->
            IF node.cls # "ITEM" THEN {}
            ELSE TakePositions(AttrPositions(node), loc.kind.index + 1)
                    \ TakePositions(AttrPositions(node), loc.kind.index)

\* censor_for_macro_input: the positions of the attributes censored from `node`.
\* `ast::Item::cast(node)?` fails for a node that is no item.
censor_for_macro_input(loc, node) ==
    CASE loc.kind.tag = "FnLike" -> {}
      [] loc.kind.tag = "Derive" ->
            IF node.cls # "ITEM" THEN {}
            ELSE \* .attrs().take(derive_attr_index.ast_index() + 1).filter(derive)
                 TakePositions(AttrPositions(node), loc.kind.index + 1)
                    \cap DerivePositions(node)
      [] loc.kind.tag = "Attr" /\ is_attribute_derive(loc.def) -> {}
      [] OTHER ->
            IF node.cls # "ITEM" THEN {}
            ELSE \* .doc_comments_and_attrs().nth(invoc_attr_index.ast_index()).and_then(Either::left)
                 {i \in AttrPositions(node) : i = loc.kind.index + 1}

\* mbe::syntax_node_to_token_tree_censored: the outer delimiter is the one the
\* node opens with, invisible for a node that is not a delimited token tree.
DelimiterOf(node) ==
    CASE node.cls = "TOKEN_TREE" /\ node.first = "(" -> "paren"
      [] node.cls = "TOKEN_TREE" /\ node.first = "[" -> "bracket"
      [] node.cls = "TOKEN_TREE" /\ node.first = "{" -> "brace"
      [] OTHER -> UNSPECIFIED
syntax_node_to_token_tree_censored(node, censor) ==
    MkTree("lowered", DelimiterOf(node), node, censor, node.weight)

\* A validation that accepts any opening delimiter with any closing one.
mismatched_delimiters_AnyPair(arg) ==
    IF arg.first \in {"(", "[", "{"} /\ arg.last \in {")", "]", "}"}
    THEN <<>> ELSE <<"unbalanced token tree">>

\* The closure `mismatched_delimiters` of macro_arg: the error it yields, if any.
mismatched_delimiters(arg) ==
    LET first == IF arg.first = NoChild THEN "." ELSE arg.first
        last == IF arg.last = NoChild THEN "." ELSE arg.last
        well_formed_tt ==
            <<first, last>> \in {<<"(", ")">>, <<"[", "]">>, <<"{", "}">>}
    IN IF ~well_formed_tt THEN <<"unbalanced token tree">> ELSE <<>>

\* A macro_arg that hands every definition kind the delimiter as lowered.
macro_arg_KeepsDelimiter(loc, errors) ==
    IF loc.def.kind = "BuiltInEager" /\ loc.eager.some
    THEN MkResult(loc.eager.arg, <<>>)
    ELSE LET syntax == loc.kind.node
             only_err ==
                CASE loc.kind.tag # "FnLike" -> <<>>
                  [] syntax.cls = "MISSING" -> <<"missing token tree">>
                  [] OTHER -> mismatched_delimiters(syntax)
             censor == censor_for_macro_input(loc, syntax)
             tt == syntax_node_to_token_tree_censored(syntax, censor)
         IN IF only_err # <<>> THEN MkResult(NoTree, only_err)
            ELSE IF loc.def.kind = "BuiltInEager"
                 THEN MkResult(tt, errors)
                 ELSE MkResult(tt, <<>>)

\* A macro_arg that validates the call's syntax before it looks for a
\* pre-recorded eager argument.
macro_arg_ValidatesFirst(loc, errors) ==
    LET syntax == loc.kind.node
        only_err ==
            CASE loc.kind.tag # "FnLike" -> <<>>
              [] syntax.cls = "MISSING" -> <<"missing token tree">>
              [] OTHER -> mismatched_delimiters(syntax)
        censor == censor_for_macro_input(loc, syntax)
        lowered == syntax_node_to_token_tree_censored(syntax, censor)
        tt == IF is_proc_macro(loc.def)
              THEN [lowered EXCEPT !.delimiter = UNSPECIFIED]
              ELSE lowered
    IN IF only_err # <<>> THEN MkResult(NoTree, only_err)
       ELSE IF loc.def.kind = "BuiltInEager" /\ loc.eager.some
            THEN MkResult(loc.eager.arg, <<>>)
            ELSE IF loc.def.kind = "BuiltInEager"
                 THEN MkResult(tt, errors)
                 ELSE MkResult(tt, <<>>)

\* A macro_arg that reports the file's parse errors for every definition kind.
macro_arg_ErrorsForAll(loc, errors) ==
    IF loc.def.kind = "BuiltInEager" /\ loc.eager.some
    THEN MkResult(loc.eager.arg, <<>>)
    ELSE LET syntax == loc.kind.node
             only_err ==
                CASE loc.kind.tag # "FnLike" -> <<>>
                  [] syntax.cls = "MISSING" -> <<"missing token tree">>
                  [] OTHER -> mismatched_delimiters(syntax)
             censor == censor_for_macro_input(loc, syntax)
             lowered == syntax_node_to_token_tree_censored(syntax, censor)
             tt == IF is_proc_macro(loc.def)
                   THEN [lowered EXCEPT !.delimiter = UNSPECIFIED]
                   ELSE lowered
         IN IF only_err # <<>> THEN MkResult(NoTree, only_err)
            ELSE MkResult(tt, errors)

\* A macro_arg that validates the delimiters of the node of every call kind,
\* the items of derive and attribute calls included.
macro_arg_ValidatesAll(loc, errors) ==
    IF loc.def.kind = "BuiltInEager" /\ loc.eager.some
    THEN MkResult(loc.eager.arg, <<>>)
    ELSE LET syntax == loc.kind.node
             only_err ==
                CASE syntax.cls = "MISSING" -> <<"missing token tree">>
                  [] OTHER -> mismatched_delimiters(syntax)
             censor == censor_for_macro_input(loc, syntax)
             lowered == syntax_node_to_token_tree_censored(syntax, censor)
             tt == IF is_proc_macro(loc.def)
                   THEN [lowered EXCEPT !.delimiter = UNSPECIFIED]
                   ELSE lowered
         IN IF only_err # <<>> THEN MkResult(NoTree, only_err)
            ELSE IF loc.def.kind = "BuiltInEager"
                 THEN MkResult(tt, errors)
                 ELSE MkResult(tt, <<>>)

\* macro_arg: ValueResult<Option<tree>, errors>; `errors` are the parse
\* errors of the file that owns the call.
macro_arg(loc, errors) ==
    IF loc.def.kind = "BuiltInEager" /\ loc.eager.some
    THEN MkResult(loc.eager.arg, <<>>)
    ELSE LET syntax == loc.kind.node
             only_err ==
                CASE loc.kind.tag # "FnLike" -> <<>>
                  [] syntax.cls = "MISSING" -> <<"missing token tree">>
                  [] OTHER -> mismatched_delimiters(syntax)
             censor == censor_for_macro_input(loc, syntax)
             lowered == syntax_node_to_token_tree_censored(syntax, censor)
             tt == IF is_proc_macro(loc.def)
                   THEN [lowered EXCEPT !.delimiter = UNSPECIFIED]
                   ELSE lowered
         IN IF only_err # <<>> THEN MkResult(NoTree, only_err)
            ELSE IF loc.def.kind = "BuiltInEager"
                 THEN MkResult(tt, errors)
                 ELSE MkResult(tt, <<>>)

--------------------------------------------------------------------------
(* Expanders and macro_expand *)

\* What an expander may answer: a tree of some size, with or without an error.
OutCounts == {1, TOKEN_LIMIT, TOKEN_LIMIT + 1}
OutTree(count) == MkTree("expanded", UNSPECIFIED, MissingNode, {}, count)
Outs == {MkResult(OutTree(c), e) : c \in OutCounts, e \in {NoErr, OtherErr("expander error")}}
\* The answers of the external (procedural) expander, chosen at each invocation.
ProcOuts == {o \in Outs : o.value.count # TOKEN_LIMIT}

\* A check that also rejects a tree of exactly TOKEN_LIMIT tokens.
check_tt_count_AtLimit(tt) ==
    LET count == tt.count
    IN [is_err |-> count >= TOKEN_LIMIT,
        value |-> MkResult(EmptySubtree,
                           MkErr("macro invocation exceeds token limit", count, TOKEN_LIMIT))]

\* Limit::check(count): an error exactly when count exceeds the bound.
check_tt_count(tt) ==
    LET count == tt.count
    IN [is_err |-> count > TOKEN_LIMIT,
        value |-> MkResult(EmptySubtree,
                           MkErr("macro invocation exceeds token limit", count, TOKEN_LIMIT))]

\* A join that leaves the separator after the last message.
RECURSIVE JoinErrors_TrailingSeparator(_)
JoinErrors_TrailingSeparator(errs) ==
    IF errs = <<>> THEN ""
    ELSE errs[1] \o ", " \o JoinErrors_TrailingSeparator(Tail(errs))

\* ", "-joined messages of the errors macro_arg reported
RECURSIVE JoinErrors(_)
JoinErrors(errs) ==
    IF errs = <<>> THEN ""
    ELSE IF Len(errs) = 1 THEN errs[1]
    ELSE errs[1] \o ", " \o JoinErrors(Tail(errs))

InvalidTokenTree == MkResult(EmptySubtree, OtherErr("invalid token tree"))

\* DeclarativeMacro::err of the expander decl_macro_expander builds for `def`:
\* the error its rules failed to compile with, "" for rules that compiled.
mac_err(def) == IF def.compiles THEN "" ELSE "expected a token tree"

\* A declarative expander that runs the matcher whatever the compilation gave.
DeclarativeExpand_RunsMatcher(def, tt, out) ==
    MkRun(out, {Invocation("Declarative", tt, out), Invocation("mbe", tt, out)}, FALSE)

\* DeclarativeMacroExpander::expand on `tt`; `out` is what mbe answers.
DeclarativeExpand(def, tt, out) ==
    IF mac_err(def) # ""
    THEN LET failed == MkResult(EmptySubtree,
                                OtherErr("invalid macro definition: " \o mac_err(def)))
         IN MkRun(failed, {Invocation("Declarative", tt, failed)}, FALSE)
    ELSE MkRun(out, {Invocation("Declarative", tt, out), Invocation("mbe", tt, out)}, FALSE)

\* An expand_proc_macro that merges the error recorded at eager collection
\* into the answer, as the tail of macro_expand does for the other kinds.
expand_proc_macro_MergesEager(loc, arg, out) ==
    IF arg.value = NoTree THEN MkRun(InvalidTokenTree, {}, FALSE)
    ELSE IF loc.def.kind # "ProcMacro" THEN PanicRun
    ELSE LET checked == check_tt_count(out.value)
             err == IF loc.eager.some /\ loc.eager.error # NoErr
                    THEN loc.eager.error ELSE out.err
         IN MkRun(IF checked.is_err THEN checked.value ELSE MkResult(out.value, err),
                  {Invocation("ProcMacro", arg.value, out)}, FALSE)

\* expand_proc_macro: `arg` is db.macro_arg(id), `out` the answer of the
\* external expander to this invocation.
expand_proc_macro(loc, arg, out) ==
    IF arg.value = NoTree THEN MkRun(InvalidTokenTree, {}, FALSE)
    ELSE IF loc.def.kind # "ProcMacro" THEN PanicRun
    ELSE LET checked == check_tt_count(out.value)
         IN MkRun(IF checked.is_err THEN checked.value ELSE out,
                  {Invocation("ProcMacro", arg.value, out)}, FALSE)

\* A tail that merges the errors and skips the token limit check.
FinishExpand_NoLimit(loc, run) ==
    MkRun(MkResult(run.res.value,
                   IF loc.eager.some /\ loc.eager.error # NoErr
                   THEN loc.eager.error ELSE run.res.err),
          run.invoked, FALSE)

\* A tail in which the expander's own error wins over the collection-time one.
FinishExpand_ExpanderErrorFirst(loc, run) ==
    LET tt == run.res.value
        err == IF run.res.err # NoErr \/ ~loc.eager.some
               THEN run.res.err ELSE loc.eager.error
        checked == check_tt_count(tt)
    IN IF ~is_include(loc.def) /\ checked.is_err
       THEN MkRun(checked.value, run.invoked, FALSE)
       ELSE MkRun(MkResult(tt, err), run.invoked, FALSE)

\* The tail of macro_expand: merge of the eager-collection error and the
\* token limit check.
FinishExpand(loc, run) ==
    LET tt == run.res.value
        err == IF loc.eager.some /\ loc.eager.error # NoErr
               THEN loc.eager.error ELSE run.res.err
        checked == check_tt_count(tt)
    IN IF ~is_include(loc.def) /\ checked.is_err
       THEN MkRun(checked.value, run.invoked, FALSE)
       ELSE MkRun(MkResult(tt, err), run.invoked, FALSE)

\* The inner match of macro_expand on the definition kind, for an extracted
\* argument `tt`; `errs` are the errors macro_arg reported with it.
dispatch_expander(loc, tt, errs, out) ==
    CASE loc.def.kind = "Declarative" ->
            FinishExpand(loc, DeclarativeExpand(loc.def, tt, out))
      [] loc.def.kind = "BuiltIn" ->
            FinishExpand(loc, MkRun(out, {Invocation("BuiltIn", tt, out)}, FALSE))
      [] loc.def.kind = "BuiltInEager" /\ ~loc.eager.some ->
            MkRun(MkResult(tt, IF errs = <<>> THEN NoErr ELSE OtherErr(JoinErrors(errs))),
                  {}, FALSE)
      [] loc.def.kind = "BuiltInEager" ->
            FinishExpand(loc, MkRun(out, {Invocation("BuiltInEager", tt, out)}, FALSE))
      [] loc.def.kind = "BuiltInAttr" ->
            FinishExpand(loc, MkRun(out, {Invocation("BuiltInAttr", tt, out)}, FALSE))
      [] OTHER -> PanicRun

\* The built-in derive arm of macro_expand: the expander is handed the item's
\* syntax node; the censor list is computed and dropped.
expand_builtin_derive(loc, out) ==
    IF loc.kind.tag # "Derive" THEN PanicRun
    ELSE LET node == loc.kind.node
             _censor == censor_for_macro_input(loc, node)
         IN FinishExpand(loc,
                MkRun(out, {Invocation("BuiltInDerive",
                                MkTree("syntax", UNSPECIFIED, node, {}, node.weight),
                                out)},
                      FALSE))

\* A macro_expand that hands an absent argument to the expander as an empty tree.
macro_expand_NoShortCircuit(loc, arg, proc, out) ==
    CASE loc.def.kind = "ProcMacro" -> proc
      [] loc.def.kind = "BuiltInDerive" -> expand_builtin_derive(loc, out)
      [] OTHER ->
            dispatch_expander(loc, IF arg.value = NoTree THEN EmptySubtree ELSE arg.value,
                              arg.err, out)

\* macro_expand: `arg` is db.macro_arg(id), `proc` the run of
\* db.expand_proc_macro(id), `out` the answer of the expander dispatched to.
macro_expand(loc, arg, proc, out) ==
    CASE loc.def.kind = "ProcMacro" -> proc
      [] loc.def.kind = "BuiltInDerive" -> expand_builtin_derive(loc, out)
      [] OTHER ->
            IF arg.value = NoTree THEN MkRun(InvalidTokenTree, {}, FALSE)
            ELSE dispatch_expander(loc, arg.value, arg.err, out)

--------------------------------------------------------------------------
(* expand_speculative *)

\* Alternative nodes handed to expand_speculative: what the caller takes from
\* the edited file in place of the call's argument (a token tree for a
\* function-like call, an item or an attribute for a derive or attribute call).
AttrNode(has_tt) ==
    MkNode("ATTR", IF has_tt THEN "(" ELSE NoChild, IF has_tt THEN ")" ELSE NoChild,
           2, <<>>, FALSE)
SpecNodes(loc) ==
    IF loc.kind.tag = "FnLike"
    THEN {MkNode("TOKEN_TREE", "(", ")", 2, <<>>, FALSE),
          MkNode("TOKEN_TREE", "(", "ident", 2, <<>>, FALSE)}
    ELSE {ItemNode(<<"derive", "attr">>, TRUE),
          ItemNode(<<"doc", "attr", "derive">>, FALSE),
          AttrNode(TRUE)}

\* The scores min_by_key sees, in map order: 0, 1 or 2 mismatches of kind and text.
CandSeqs == {<<>>, <<1, 0>>, <<2, 1, 1>>}

\* A selection that returns the last element with the least key.
min_by_key_Last(cands) ==
    IF cands = <<>> THEN 0
    ELSE CHOOSE i \in 1..Len(cands) :
            /\ \A j \in 1..Len(cands) : cands[i] <= cands[j]
            /\ \A j \in (i + 1)..Len(cands) : cands[j] > cands[i]

\* Iterator::min_by_key: the first element with the least key; 0 for no element.
min_by_key(cands) ==
    IF cands = <<>> THEN 0
    ELSE CHOOSE i \in 1..Len(cands) :
            /\ \A j \in 1..Len(cands) : cands[i] <= cands[j]
            /\ \A j \in 1..(i - 1) : cands[j] > cands[i]

\* `attr_arg` of expand_speculative: "return" (the function returns None),
\* "some" or "none".
speculative_attr_arg(loc, node) ==
    IF loc.kind.tag # "Attr" THEN "none"
    ELSE IF is_attribute_derive(loc.def)
         THEN IF node.cls # "ATTR" THEN "return"
              ELSE IF node.first \in OpenKinds THEN "some" ELSE "none"
         ELSE IF node.cls # "ITEM" \/ (loc.kind.index + 1) \notin AttrPositions(node)
              THEN "return"
              ELSE IF node.attrs[loc.kind.index + 1] = "derive" THEN "some" ELSE "none"

\* `speculative_expansion` of expand_speculative; a run with no invocation and
\* an absent tree stands for an early `return None` of the function.
ReturnNone == MkRun(MkResult(NoTree, NoErr), {}, FALSE)
speculative_expansion(loc, node, out) ==
    LET _censor == censor_for_macro_input(loc, node)
        tt == syntax_node_to_token_tree_censored(node, {})
        attr_arg == speculative_attr_arg(loc, node)
    IN IF attr_arg = "return" THEN ReturnNone
       ELSE CASE loc.def.kind = "ProcMacro" ->
                    MkRun(out, {Invocation("ProcMacro", [tt EXCEPT !.delimiter = UNSPECIFIED], out)},
                          FALSE)
              [] is_attribute_derive(loc.def) ->
                    IF attr_arg # "some" THEN ReturnNone
                    ELSE MkRun(out, {Invocation("pseudo_derive_attr_expansion", tt, out)}, FALSE)
              [] loc.def.kind = "BuiltInDerive" ->
                    IF ~(node.cls = "ITEM" /\ node.adt) THEN PanicRun
                    ELSE MkRun(out, {Invocation("BuiltInDerive",
                                        MkTree("syntax", UNSPECIFIED, node, {}, node.weight),
                                        out)},
                               FALSE)
              [] loc.def.kind = "Declarative" -> DeclarativeExpand(loc.def, tt, out)
              [] OTHER -> MkRun(out, {Invocation(loc.def.kind, tt, out)}, FALSE)

--------------------------------------------------------------------------
(* token_tree_to_syntax_node *)

\* ExpandTo, the syntactic category a call expands to.
ExpandTos == {"Statements", "Items", "Pattern", "Type", "Expr"}

\* An entry point table that parses statements as items.
TopEntryPoint_StmtsAsItems(expand_to) ==
    CASE expand_to \in {"Statements", "Items"} -> "MacroItems"
      [] expand_to = "Pattern" -> "Pattern"
      [] expand_to = "Type" -> "Type"
      [] expand_to = "Expr" -> "Expr"

\* The `entry_point` match of token_tree_to_syntax_node.
TopEntryPoint(expand_to) ==
    CASE expand_to = "Statements" -> "MacroStmts"
      [] expand_to = "Items" -> "MacroItems"
      [] expand_to = "Pattern" -> "Pattern"
      [] expand_to = "Type" -> "Type"
      [] expand_to = "Expr" -> "Expr"

\* SpanAnchor { file_id, ast_id }: three anchors in file 1, one in file 2.
Anchors ==
    {[file_id |-> 1, ast_id |-> 0], [file_id |-> 1, ast_id |-> 1],
     [file_id |-> 1, ast_id |-> 2], [file_id |-> 2, ast_id |-> 0]}

\* db.ast_id_map(file_id).get_raw(ast_id).text_range().start(): in file 1 the
\* node of ast id 2 starts before the node of ast id 1.
AstIdStart(file_id, ast_id) ==
    CASE file_id = 1 /\ ast_id = 1 -> 20
      [] file_id = 1 /\ ast_id = 2 -> 10
      [] OTHER -> 0

\* SpanData { range, anchor }: `start` is the start of the range, relative to
\* the start of the anchor's node.
RangeStarts == {0, 15}
Spans == {[anchor |-> a, start |-> r] : a \in Anchors, r \in RangeStarts}

\* The span map mbe::token_tree_to_syntax_node builds: one entry per token of
\* the syntax tree, in the order of the tokens' ranges in that tree.
MaxEntries == 3
BuilderMaps ==
    {[i \in 1..Len(sp) |-> [range |-> i, span |-> sp[i]]] : sp \in SeqsUpTo(Spans, MaxEntries)}

\* A comparator that orders anchors of one file by their raw ast id.
span_map_less_ByAstId(a, b) ==
    \/ a.span.anchor.file_id < b.span.anchor.file_id
    \/ /\ a.span.anchor.file_id = b.span.anchor.file_id
       /\ a.span.anchor.ast_id < b.span.anchor.ast_id

\* The comparator of `tm.1.span_map.sort_by(..)`: Ordering::Less.
span_map_less(a, b) ==
    \/ a.span.anchor.file_id < b.span.anchor.file_id
    \/ /\ a.span.anchor.file_id = b.span.anchor.file_id
       /\ AstIdStart(a.span.anchor.file_id, a.span.anchor.ast_id)
            < AstIdStart(a.span.anchor.file_id, b.span.anchor.ast_id)

\* A sort that keeps one entry per sort key, the first the builder gave.
sort_by_Dedup(s) ==
    LET kept == {i \in 1..Len(s) :
                    \A j \in 1..(i - 1) :
                        span_map_less(s[j], s[i]) \/ span_map_less(s[i], s[j])}
        rank(i) == 1 + Cardinality({j \in kept : span_map_less(s[j], s[i])})
    IN [k \in 1..Cardinality(kept) |-> s[CHOOSE i \in kept : rank(i) = k]]

\* slice::sort_by with the comparator above: a stable sort, the element of
\* index i lands after those that compare less and those that compare equal
\* and precede it.
sort_by(s) ==
    LET rank(i) ==
            1 + Cardinality({j \in 1..Len(s) :
                                \/ span_map_less(s[j], s[i])
                                \/ ~span_map_less(s[i], s[j]) /\ j < i})
    IN [k \in 1..Len(s) |-> s[CHOOSE i \in 1..Len(s) : rank(i) = k]]

\* token_tree_to_syntax_node(db, tt, expand_to); `tm` is the span map the
\* tree builder made for `tt`.
token_tree_to_syntax_node(tm, expand_to) ==
    [entry_point |-> TopEntryPoint(expand_to), span_map |-> sort_by(tm)]

--------------------------------------------------------------------------
(* The database *)

VARIABLES
    calls,                     \* the MacroCallLocs the collected source offers
    oracle,                    \* the answer of the deterministic expanders
    parse_errors,              \* parse errors of the file owning the calls
    interned,                  \* intern table: id i stands for interned[i]
    macro_arg_memo,            \* memo of the macro_arg query
    macro_expand_memo,         \* memo of the macro_expand query (LRU)
    expand_proc_macro_memo,    \* memo of the expand_proc_macro query
    decl_macro_expander_memo,  \* crates decl_macro_expander has compiled for
    ast_id_map_memo,           \* whether ast_id_map of the call's file is memoized
    last,                      \* the last request and what it returned
    conv,                      \* the last token-tree conversion: its inputs and result
    eval                       \* the query evaluation in progress: active queries, memos

vars == <<calls, oracle, parse_errors, interned, macro_arg_memo, macro_expand_memo,
          expand_proc_macro_memo, decl_macro_expander_memo, ast_id_map_memo, last, conv,
          eval>>

world == <<calls, oracle, parse_errors>>

\* A conversion request: who asks, for a call of which definition kind and
\* expand_to, with the span map the tree builder made.
MkConv(caller, def_kind, expand_to, tm) ==
    [caller |-> caller, def_kind |-> def_kind, expand_to |-> expand_to, tm |-> tm,
     done |-> FALSE, entry_point |-> "none", span_map |-> <<>>]
NoConv == MkConv("none", "none", "Items", <<>>)

\* An evaluation: the file that holds the declarative definitions, a file
\* whose spans the expansions inherit, the stack of active queries (each with
\* the number of requests it has made) and the queries already memoized.
MkEval(def_file, inherited) ==
    [def_file |-> def_file, inherited |-> inherited, stack |-> <<>>, done |-> {}]
NoEval == MkEval(0, 0)

ParseErrorLists == {<<>>, <<"expected SEMICOLON", "expected expression">>}

NoArg == MkResult(NoTree, <<>>)
NoLoc == MkLoc(MkDef("none", "-", TRUE), DefCrate, MkKind("none", MissingNode, 0), NoEager)
MkLast(op, id, arg, run, ret, token) ==
    [op |-> op, id |-> id, loc |-> NoLoc, arg |-> arg, run |-> run, ret |-> ret,
     token |-> token, cands |-> <<>>]
Idle == MkLast("none", 0, NoArg, ReturnNone, "none", 0)

EmptyMemo == [i \in {} |-> NoArg]
Store(memo, id, value) == [i \in DOMAIN memo \cup {id} |-> IF i = id THEN value ELSE memo[i]]
Drop(memo, id) == [i \in DOMAIN memo \ {id} |-> memo[i]]

Interned == 1..Len(interned)

\* The database after the source offering `callset` has been loaded and the
\* locations `table` interned, with nothing memoized yet.
InitWith(callset, table, outs, errors) ==
    /\ calls = callset
    /\ interned = table
    /\ oracle \in outs
    /\ parse_errors \in errors
    /\ macro_arg_memo = EmptyMemo
    /\ macro_expand_memo = EmptyMemo
    /\ expand_proc_macro_memo = EmptyMemo
    /\ decl_macro_expander_memo = {}
    /\ ast_id_map_memo = FALSE
    /\ last = Idle
    /\ conv = NoConv
    /\ eval = NoEval

\* The answer of the deterministic expanders is not read for a procedural
\* macro, whose expander answers anew at each invocation.
OraclesFor(loc, outs) == IF is_proc_macro(loc.def) THEN {CHOOSE o \in outs : TRUE} ELSE outs

\* Dispatch and limits: one interned call of any definition kind and eager
\* state, over a well-formed, an oversized, an unbalanced or a missing argument,
\* or on an item with one attribute.
MainArgNodes ==
    {MkNode("TOKEN_TREE", "(", ")", 2, <<>>, FALSE),
     MkNode("TOKEN_TREE", "(", ")", TOKEN_LIMIT + 1, <<>>, FALSE),
     MkNode("TOKEN_TREE", "{", "ident", 2, <<>>, FALSE),
     MissingNode}
MainLocs ==
    {l \in Locs :
        \/ l.kind.tag = "FnLike" /\ l.kind.node \in MainArgNodes
        \/ l.kind.tag # "FnLike" /\ Len(l.kind.node.attrs) = 1}
Init ==
    \E loc \in MainLocs :
        InitWith({loc}, <<loc>>, OraclesFor(loc, Outs), ParseErrorLists)

\* Argument validation: one interned function-like call over every argument node.
InitArgs ==
    \E loc \in {l \in Locs : l.kind.tag = "FnLike"} :
        InitWith({loc}, <<loc>>, {MkResult(OutTree(1), NoErr)}, ParseErrorLists)

\* Censoring: one interned derive or attribute call over every item, or a
\* function-like call.
ItemSpecLocs ==
    DeriveLocs \cup AttrLocs
    \cup {l \in MainLocs : l.kind.tag = "FnLike" /\ l.kind.node.weight = 2 /\ ~l.eager.some}
InitItems ==
    \E loc \in ItemSpecLocs :
        InitWith({loc}, <<loc>>,
                 OraclesFor(loc, {MkResult(OutTree(1), NoErr),
                                  MkResult(OutTree(TOKEN_LIMIT + 1), OtherErr("expander error"))}),
                 {<<>>})

\* An interning that hands out a fresh id at every request.
intern_macro_call_AlwaysFresh(table, loc) ==
    [table |-> Append(table, loc), id |-> Len(table) + 1]

\* #[salsa::interned] intern_macro_call: the id of an equal location interned
\* before, a fresh id otherwise.
intern_macro_call(table, loc) ==
    IF \E i \in 1..Len(table) : table[i] = loc
    THEN [table |-> table, id |-> CHOOSE i \in 1..Len(table) : table[i] = loc]
    ELSE [table |-> Append(table, loc), id |-> Len(table) + 1]

\* lookup_intern_macro_call
lookup_intern_macro_call(id) == interned[id]

InternMacroCall(loc) ==
    LET r == intern_macro_call(interned, loc)
    IN /\ Len(r.table) <= MaxCalls
       /\ interned' = r.table
       /\ last' = [MkLast("intern_macro_call", r.id, NoArg, ReturnNone, "some", 0)
                        EXCEPT !.loc = loc]
       /\ UNCHANGED <<world, conv, eval, macro_arg_memo, macro_expand_memo, expand_proc_macro_memo,
                      decl_macro_expander_memo, ast_id_map_memo>>

\* The lookup_intern_macro_call request for an id interning produced.
LookupInternMacroCall(id) ==
    /\ last' = [MkLast("lookup_intern_macro_call", id, NoArg, ReturnNone, "some", 0)
                    EXCEPT !.loc = lookup_intern_macro_call(id)]
    /\ UNCHANGED <<world, conv, eval, interned, macro_arg_memo, macro_expand_memo,
                   expand_proc_macro_memo, decl_macro_expander_memo, ast_id_map_memo>>

\* db.macro_arg(id): the memoized value, or the computed one.
ArgQuery(id) ==
    IF id \in DOMAIN macro_arg_memo THEN macro_arg_memo[id]
    ELSE macro_arg(lookup_intern_macro_call(id), parse_errors)

MacroArg(id) ==
    /\ macro_arg_memo' = Store(macro_arg_memo, id, ArgQuery(id))
    /\ last' = MkLast("macro_arg", id, ArgQuery(id), ReturnNone, "some", 0)
    /\ UNCHANGED <<world, conv, eval, interned, macro_expand_memo, expand_proc_macro_memo,
                   decl_macro_expander_memo, ast_id_map_memo>>

\* db.expand_proc_macro(id): the memoized value, or a run with a fresh answer
\* `out` of the external expander.
ProcQuery(id, out) ==
    IF id \in DOMAIN expand_proc_macro_memo
    THEN MkRun(expand_proc_macro_memo[id], {}, FALSE)
    ELSE expand_proc_macro(lookup_intern_macro_call(id), ArgQuery(id), out)

\* The expand_proc_macro query, requested for a procedural-macro call.
ExpandProcMacro(id) ==
    /\ is_proc_macro(lookup_intern_macro_call(id).def)
    /\ \E out \in ProcOuts :
        LET run == ProcQuery(id, out)
        IN /\ expand_proc_macro_memo' = Store(expand_proc_macro_memo, id, run.res)
           /\ last' = MkLast("expand_proc_macro", id, NoArg, run, "some", 0)
    /\ macro_arg_memo' = Store(macro_arg_memo, id, ArgQuery(id))
    /\ UNCHANGED <<world, conv, eval, interned, macro_expand_memo, decl_macro_expander_memo,
                   ast_id_map_memo>>

\* A macro_expand whose expander answers anew at every evaluation.
MacroExpand_FreshAnswer(id) ==
    LET loc == lookup_intern_macro_call(id)
    IN IF id \in DOMAIN macro_expand_memo
       THEN /\ last' = MkLast("macro_expand", id, NoArg,
                              MkRun(macro_expand_memo[id], {}, FALSE), "some", 0)
            /\ UNCHANGED <<world, conv, eval, interned, macro_arg_memo, macro_expand_memo,
                           expand_proc_macro_memo, decl_macro_expander_memo,
                           ast_id_map_memo>>
       ELSE \E out \in (IF is_proc_macro(loc.def) THEN ProcOuts ELSE Outs) :
            LET run == macro_expand(loc, ArgQuery(id), ProcQuery(id, out), out)
            IN /\ ~run.panicked
               /\ macro_expand_memo' = Store(macro_expand_memo, id, run.res)
               /\ macro_arg_memo' =
                    IF loc.def.kind = "BuiltInDerive" THEN macro_arg_memo
                    ELSE Store(macro_arg_memo, id, ArgQuery(id))
               /\ expand_proc_macro_memo' =
                    IF is_proc_macro(loc.def)
                    THEN Store(expand_proc_macro_memo, id, run.res)
                    ELSE expand_proc_macro_memo
               /\ decl_macro_expander_memo' =
                    IF loc.def.kind = "Declarative" /\ ArgQuery(id).value # NoTree
                    THEN decl_macro_expander_memo \cup {loc.def.krate}
                    ELSE decl_macro_expander_memo
               /\ last' = MkLast("macro_expand", id, NoArg, run, "some", 0)
               /\ UNCHANGED <<world, conv, eval, interned, ast_id_map_memo>>

\* The macro_expand query.
MacroExpand(id) ==
    LET loc == lookup_intern_macro_call(id)
    IN IF id \in DOMAIN macro_expand_memo
       THEN /\ last' = MkLast("macro_expand", id, NoArg,
                              MkRun(macro_expand_memo[id], {}, FALSE), "some", 0)
            /\ UNCHANGED <<world, conv, eval, interned, macro_arg_memo, macro_expand_memo,
                           expand_proc_macro_memo, decl_macro_expander_memo,
                           ast_id_map_memo>>
       ELSE \E out \in (IF is_proc_macro(loc.def) /\ id \notin DOMAIN expand_proc_macro_memo
                        THEN ProcOuts ELSE {oracle}) :
            LET run == macro_expand(loc, ArgQuery(id), ProcQuery(id, out), oracle)
            IN /\ ~run.panicked
               /\ macro_expand_memo' = Store(macro_expand_memo, id, run.res)
               /\ macro_arg_memo' =
                    IF loc.def.kind = "BuiltInDerive" THEN macro_arg_memo
                    ELSE Store(macro_arg_memo, id, ArgQuery(id))
               /\ expand_proc_macro_memo' =
                    IF is_proc_macro(loc.def)
                    THEN Store(expand_proc_macro_memo, id, run.res)
                    ELSE expand_proc_macro_memo
               /\ decl_macro_expander_memo' =
                    IF loc.def.kind = "Declarative" /\ ArgQuery(id).value # NoTree
                    THEN decl_macro_expander_memo \cup {loc.def.krate}
                    ELSE decl_macro_expander_memo
               /\ last' = MkLast("macro_expand", id, NoArg, run, "some", 0)
               /\ UNCHANGED <<world, conv, eval, interned, ast_id_map_memo>>

\* An eviction that reaches the memo of expand_proc_macro as well.
EvictMacroExpand_Both(id) ==
    /\ id \in DOMAIN macro_expand_memo
    /\ macro_expand_memo' = Drop(macro_expand_memo, id)
    /\ expand_proc_macro_memo' = Drop(expand_proc_macro_memo, id)
    /\ last' = MkLast("evict", id, NoArg, ReturnNone, "none", 0)
    /\ UNCHANGED <<world, conv, eval, interned, macro_arg_memo, decl_macro_expander_memo,
                   ast_id_map_memo>>

\* The LRU of macro_expand drops the memoized value of `id`.
EvictMacroExpand(id) ==
    /\ id \in DOMAIN macro_expand_memo
    /\ macro_expand_memo' = Drop(macro_expand_memo, id)
    /\ last' = MkLast("evict", id, NoArg, ReturnNone, "none", 0)
    /\ UNCHANGED <<world, conv, eval, interned, macro_arg_memo, expand_proc_macro_memo,
                   decl_macro_expander_memo, ast_id_map_memo>>

\* A speculative expansion that requests db.macro_arg(id) on its way.
ExpandSpeculative_ViaQuery(id, node, cands) ==
    LET loc == lookup_intern_macro_call(id)
    IN \E out \in (IF is_proc_macro(loc.def) THEN ProcOuts ELSE {oracle}) :
        LET run == speculative_expansion(loc, node, out)
            expanded == ~run.panicked /\ run.res.value # NoTree
            token == IF expanded THEN min_by_key(cands) ELSE 0
        IN /\ decl_macro_expander_memo' =
                IF expanded /\ loc.def.kind = "Declarative"
                THEN decl_macro_expander_memo \cup {loc.krate}
                ELSE decl_macro_expander_memo
           /\ ast_id_map_memo' = (ast_id_map_memo \/ (expanded /\ run.res.value.count >= 2))
           /\ macro_arg_memo' = Store(macro_arg_memo, id, ArgQuery(id))
           /\ last' = [MkLast("expand_speculative", id, NoArg, run,
                              IF run.panicked THEN "panic"
                              ELSE IF token = 0 THEN "none" ELSE "some", token)
                            EXCEPT !.cands = cands]
           /\ UNCHANGED <<world, conv, eval, interned, macro_expand_memo, expand_proc_macro_memo>>

\* A speculative expansion that leaves its result in the memo of macro_expand.
ExpandSpeculative_Caching(id, node, cands) ==
    LET loc == lookup_intern_macro_call(id)
    IN \E out \in (IF is_proc_macro(loc.def) THEN ProcOuts ELSE {oracle}) :
        LET run == speculative_expansion(loc, node, out)
            expanded == ~run.panicked /\ run.res.value # NoTree
            token == IF expanded THEN min_by_key(cands) ELSE 0
        IN /\ decl_macro_expander_memo' =
                IF expanded /\ loc.def.kind = "Declarative"
                THEN decl_macro_expander_memo \cup {loc.krate}
                ELSE decl_macro_expander_memo
           /\ ast_id_map_memo' = (ast_id_map_memo \/ (expanded /\ run.res.value.count >= 2))
           /\ macro_expand_memo' =
                IF expanded THEN Store(macro_expand_memo, id, run.res) ELSE macro_expand_memo
           /\ last' = [MkLast("expand_speculative", id, NoArg, run,
                              IF run.panicked THEN "panic"
                              ELSE IF token = 0 THEN "none" ELSE "some", token)
                            EXCEPT !.cands = cands]
           /\ UNCHANGED <<world, conv, eval, interned, macro_arg_memo, expand_proc_macro_memo>>

\* expand_speculative(db, id, node, token_to_map); `cands` are the scores of
\* the tokens the reverse span map offers for token_to_map. A run that panics
\* leaves the database as it was and is recorded as the last request.
ExpandSpeculative(id, node, cands) ==
    LET loc == lookup_intern_macro_call(id)
    IN \E out \in (IF is_proc_macro(loc.def) THEN ProcOuts ELSE {oracle}) :
        LET run == speculative_expansion(loc, node, out)
            expanded == ~run.panicked /\ run.res.value # NoTree
            token == IF expanded THEN min_by_key(cands) ELSE 0
        IN /\ decl_macro_expander_memo' =
                IF expanded /\ loc.def.kind = "Declarative"
                THEN decl_macro_expander_memo \cup {loc.krate}
                ELSE decl_macro_expander_memo
           /\ ast_id_map_memo' = (ast_id_map_memo \/ (expanded /\ run.res.value.count >= 2))
           /\ last' = [MkLast("expand_speculative", id, NoArg, run,
                              IF run.panicked THEN "panic"
                              ELSE IF token = 0 THEN "none" ELSE "some", token)
                            EXCEPT !.cands = cands]
           /\ UNCHANGED <<world, conv, eval, interned, macro_arg_memo, macro_expand_memo,
                          expand_proc_macro_memo>>

Next ==
    \/ \E loc \in calls : InternMacroCall(loc)
    \/ \E id \in Interned : LookupInternMacroCall(id)
    \/ \E id \in Interned : MacroArg(id)
    \/ \E id \in Interned : MacroExpand(id)
    \/ \E id \in Interned : ExpandProcMacro(id)
    \/ \E id \in Interned : EvictMacroExpand(id)
    \/ \E id \in Interned :
        \E node \in SpecNodes(lookup_intern_macro_call(id)), cands \in CandSeqs :
            ExpandSpeculative(id, node, cands)

Spec == Init /\ [][Next]_vars

\* Interning alone: the source offers several calls, none interned yet.
BalancedArg == MkNode("TOKEN_TREE", "(", ")", 2, <<>>, FALSE)
InternLocs ==
    {MkLoc(MkDef("BuiltIn", "-", TRUE), DefCrate, MkKind("FnLike", BalancedArg, 0), NoEager),
     MkLoc(MkDef("BuiltIn", "-", TRUE), DefCrate, MkKind("FnLike", MissingNode, 0), NoEager),
     MkLoc(MkDef("ProcMacro", "-", TRUE), DefCrate, MkKind("FnLike", BalancedArg, 0), NoEager),
     MkLoc(MkDef("Declarative", "-", TRUE), "krate_a", MkKind("FnLike", BalancedArg, 0), NoEager),
     MkLoc(MkDef("Declarative", "-", TRUE), "krate_b", MkKind("FnLike", BalancedArg, 0), NoEager),
     MkLoc(MkDef("ProcMacro", "-", TRUE), DefCrate,
           MkKind("Derive", ItemNode(<<"derive">>, TRUE), 0), NoEager)}
InitIntern == InitWith(InternLocs, <<>>, {MkResult(OutTree(1), NoErr)}, {<<>>})
NextIntern ==
    \/ \E loc \in calls : InternMacroCall(loc)
    \/ \E id \in Interned : LookupInternMacroCall(id)
SpecIntern == InitIntern /\ [][NextIntern]_vars

SpecArgs == InitArgs /\ [][Next]_vars

\* The call of token_tree_to_syntax_node that parse_macro_expansion and
\* expand_speculative make on the expanded tree.
TokenTreeToSyntaxNode ==
    /\ ~conv.done
    /\ conv.caller # "none"
    /\ LET r == token_tree_to_syntax_node(conv.tm, conv.expand_to)
       IN conv' = [conv EXCEPT !.done = TRUE, !.entry_point = r.entry_point,
                               !.span_map = r.span_map]
    /\ ast_id_map_memo' =
        (ast_id_map_memo
         \/ \E i, j \in 1..Len(conv.tm) :
                i < j /\ conv.tm[i].span.anchor.file_id = conv.tm[j].span.anchor.file_id)
    /\ UNCHANGED <<world, eval, interned, macro_arg_memo, macro_expand_memo,
                   expand_proc_macro_memo, decl_macro_expander_memo, last>>

\* Token selection: one interned built-in call, speculative runs over every
\* sequence of up to MaxCands candidate scores.
MaxCands == 4
InitTokens ==
    LET loc == MkLoc(MkDef("BuiltIn", "-", TRUE), DefCrate,
                     MkKind("FnLike", BalancedArg, 0), NoEager)
    IN InitWith({loc}, <<loc>>, {MkResult(OutTree(1), NoErr)}, {<<>>})
\* A candidate token compared with token_to_map, and the key of min_by_key:
\* (t.kind() != token_to_map.kind()) as u8 + (t.text() != token_to_map.text()) as u8
CandTokens == [kind_differs : BOOLEAN, text_differs : BOOLEAN]
mismatches(t) ==
    (IF t.kind_differs THEN 1 ELSE 0) + (IF t.text_differs THEN 1 ELSE 0)
NextTokens ==
    \E id \in Interned :
        \E node \in SpecNodes(lookup_intern_macro_call(id)),
           tokens \in SeqsUpTo(CandTokens, MaxCands) :
            ExpandSpeculative(id, node, [i \in 1..Len(tokens) |-> mismatches(tokens[i])])
SpecTokens == InitTokens /\ [][NextTokens]_vars

\* Conversions alone: a database with nothing interned and one conversion
\* requested, over every span map of up to MaxEntries entries.
InitDatabase ==
    /\ calls = {}
    /\ interned = <<>>
    /\ oracle = MkResult(OutTree(1), NoErr)
    /\ parse_errors = <<>>
    /\ macro_arg_memo = EmptyMemo
    /\ macro_expand_memo = EmptyMemo
    /\ expand_proc_macro_memo = EmptyMemo
    /\ decl_macro_expander_memo = {}
    /\ ast_id_map_memo = FALSE
    /\ last = Idle
    /\ eval = NoEval
InitSpanMaps ==
    /\ InitDatabase
    /\ conv \in {MkConv("parse_macro_expansion", "Declarative", "Items", tm) :
                    tm \in BuilderMaps}
SpecSpanMaps == InitSpanMaps /\ [][TokenTreeToSyntaxNode]_vars

\* Entry points: one conversion requested by either caller, for a call of any
\* definition kind and any expand_to.
DefKinds ==
    {"Declarative", "BuiltIn", "BuiltInEager", "BuiltInAttr", "BuiltInDerive", "ProcMacro"}
InitEntryPoints ==
    /\ InitDatabase
    /\ conv \in {MkConv(caller, kind, expand_to, tm) :
                    caller \in {"parse_macro_expansion", "expand_speculative"},
                    kind \in DefKinds, expand_to \in ExpandTos,
                    tm \in {m \in BuilderMaps : Len(m) = 1 /\ m[1].span.start = 0}}
SpecEntryPoints == InitEntryPoints /\ [][TokenTreeToSyntaxNode]_vars
SpecItems == InitItems /\ [][Next]_vars

--------------------------------------------------------------------------
(* Query evaluation over a chain of macro files *)

\* Calls 1..MaxDepth nested in one another: file 0 is a real file, file k > 0
\* is MacroFile { macro_call_id: k }, and call k is written in file k - 1
\* (`loc.kind.file_id()`).
MaxDepth == 3
MaxStack == 6 * MaxDepth + 2
EnclosingFile(id) == id - 1

Query(q, id) == [q |-> q, id |-> id]
Frame(query) == [q |-> query.q, id |-> query.id, pc |-> 1]

\* The files macro definitions and inherited spans may sit in.
SideFiles == {0, 1}

\* `id.file_id` of the definition of declarative call `id`: a file expanded
\* before the call was collected.
DefFile(id) == IF eval.def_file < id THEN eval.def_file ELSE 0

\* The files that anchor at least two spans of the expansion of call `id`:
\* the file the call is written in (SpanAnchor { file_id: loc.kind.file_id(), .. })
\* and a file whose spans came with the enclosing expansion's span map.
AnchorFiles(id) ==
    {EnclosingFile(id)} \cup {f \in {eval.inherited} : f < EnclosingFile(id)}

RECURSIVE Ascending(_)
Ascending(S) ==
    IF S = {} THEN <<>>
    ELSE LET least == CHOOSE x \in S : \A y \in S : x <= y
         IN <<least>> \o Ascending(S \ {least})

\* parse_macro_expansion: db.macro_expand, then the comparator of
\* token_tree_to_syntax_node asks db.ast_id_map for each anchoring file.
parse_macro_expansion_requests(id) ==
    <<Query("macro_expand", id)>>
        \o [i \in 1..Cardinality(AnchorFiles(id)) |->
                Query("ast_id_map", Ascending(AnchorFiles(id))[i])]

\* ast_id_map: parse_or_expand of the file (db.parse for a real file).
ast_id_map_requests(file_id) ==
    IF file_id > 0 THEN <<Query("parse_macro_expansion", file_id)>> ELSE <<>>

\* decl_macro_expander: the parse of the definition's file.
decl_macro_expander_requests(file_id) ==
    IF file_id > 0 THEN <<Query("parse_macro_expansion", file_id)>> ELSE <<>>

\* macro_arg: nothing for a pre-recorded eager argument, else the parse of the
\* file the call is written in.
macro_arg_requests(loc, id) ==
    IF loc.def.kind = "BuiltInEager" /\ loc.eager.some THEN <<>>
    ELSE IF EnclosingFile(id) > 0
         THEN <<Query("parse_macro_expansion", EnclosingFile(id))>>
         ELSE <<>>

\* expand_proc_macro: db.macro_arg.
expand_proc_macro_requests(id) == <<Query("macro_arg", id)>>

\* A macro_expand that runs the eager expander on the raw input of a call
\* without a pre-recorded argument; that expansion reads the ast id map of the
\* input's own macro file.
macro_expand_requests_ExpandsEager(loc, id) ==
    CASE loc.def.kind = "ProcMacro" -> <<Query("expand_proc_macro", id)>>
      [] loc.def.kind = "BuiltInDerive" ->
            IF EnclosingFile(id) > 0
            THEN <<Query("parse_macro_expansion", EnclosingFile(id))>>
            ELSE <<>>
      [] OTHER ->
            IF macro_arg(loc, parse_errors).value = NoTree
            THEN <<Query("macro_arg", id)>>
            ELSE CASE loc.def.kind = "Declarative" ->
                        <<Query("macro_arg", id),
                          Query("decl_macro_expander", DefFile(id))>>
                   [] loc.def.kind = "BuiltInEager" /\ ~loc.eager.some ->
                        <<Query("macro_arg", id), Query("ast_id_map", id)>>
                   [] OTHER -> <<Query("macro_arg", id)>>

\* macro_expand: expand_proc_macro for a procedural macro; the parse of the
\* enclosing file for a built-in derive; else macro_arg, followed by
\* decl_macro_expander for a declarative macro.  A built-in eager call without
\* a pre-recorded argument returns its input after macro_arg.
macro_expand_requests(loc, id) ==
    CASE loc.def.kind = "ProcMacro" -> <<Query("expand_proc_macro", id)>>
      [] loc.def.kind = "BuiltInDerive" ->
            IF EnclosingFile(id) > 0
            THEN <<Query("parse_macro_expansion", EnclosingFile(id))>>
            ELSE <<>>
      [] OTHER ->
            IF macro_arg(loc, parse_errors).value = NoTree
            THEN <<Query("macro_arg", id)>>
            ELSE CASE loc.def.kind = "Declarative" ->
                        <<Query("macro_arg", id),
                          Query("decl_macro_expander", DefFile(id))>>
                   [] loc.def.kind = "BuiltInEager" /\ ~loc.eager.some ->
                        <<Query("macro_arg", id)>>
                   [] OTHER -> <<Query("macro_arg", id)>>

\* The queries the body of `query` requests, in order.
Requests(query) ==
    CASE query.q = "parse_macro_expansion" -> parse_macro_expansion_requests(query.id)
      [] query.q = "macro_expand" ->
            macro_expand_requests(lookup_intern_macro_call(query.id), query.id)
      [] query.q = "expand_proc_macro" -> expand_proc_macro_requests(query.id)
      [] query.q = "macro_arg" ->
            macro_arg_requests(lookup_intern_macro_call(query.id), query.id)
      [] query.q = "ast_id_map" -> ast_id_map_requests(query.id)
      [] query.q = "decl_macro_expander" -> decl_macro_expander_requests(query.id)

Top == eval.stack[Len(eval.stack)]
TopQuery == Query(Top.q, Top.id)
Pending == Top.pc <= Len(Requests(TopQuery))
Requested == Requests(TopQuery)[Top.pc]
Advanced == [eval.stack EXCEPT ![Len(eval.stack)].pc = Top.pc + 1]

\* A caller asks for the expansion of the innermost call, or for its parse.
StartQuery(query) ==
    /\ eval.stack = <<>>
    /\ eval.done = {}
    /\ eval' = [eval EXCEPT !.stack = <<Frame(query)>>]
    /\ UNCHANGED <<world, conv, interned, macro_arg_memo, macro_expand_memo,
                   expand_proc_macro_memo, decl_macro_expander_memo, ast_id_map_memo, last>>

\* The active query requests a query that is not memoized: it is evaluated.
RequestQuery ==
    /\ eval.stack # <<>>
    /\ Len(eval.stack) < MaxStack
    /\ Pending
    /\ Requested \notin eval.done
    /\ eval' = [eval EXCEPT !.stack = Append(Advanced, Frame(Requested))]
    /\ UNCHANGED <<world, conv, interned, macro_arg_memo, macro_expand_memo,
                   expand_proc_macro_memo, decl_macro_expander_memo, ast_id_map_memo, last>>

\* The active query requests a memoized query.
MemoizedQuery ==
    /\ eval.stack # <<>>
    /\ Pending
    /\ Requested \in eval.done
    /\ eval' = [eval EXCEPT !.stack = Advanced]
    /\ UNCHANGED <<world, conv, interned, macro_arg_memo, macro_expand_memo,
                   expand_proc_macro_memo, decl_macro_expander_memo, ast_id_map_memo, last>>

\* The active query has made all its requests: it returns and is memoized.
CompleteQuery ==
    /\ eval.stack # <<>>
    /\ ~Pending
    /\ eval' = [eval EXCEPT !.stack = SubSeq(eval.stack, 1, Len(eval.stack) - 1),
                            !.done = eval.done \cup {TopQuery}]
    /\ UNCHANGED <<world, conv, interned, macro_arg_memo, macro_expand_memo,
                   expand_proc_macro_memo, decl_macro_expander_memo, ast_id_map_memo, last>>

\* One call per definition kind and eager state, function-like but for the
\* derive, with a well-formed argument.
ChainLocs ==
    {MkLoc(MkDef(k, "-", TRUE), DefCrate,
           MkKind("FnLike", MkNode("TOKEN_TREE", "(", ")", 2, <<>>, FALSE), 0), NoEager) :
        k \in {"Declarative", "BuiltInEager", "ProcMacro"}}
    \cup {MkLoc(MkDef("BuiltInEager", "-", TRUE), DefCrate,
                MkKind("FnLike", MkNode("TOKEN_TREE", "(", ")", 2, <<>>, FALSE), 0),
                [some |-> TRUE, arg |-> EagerArg, error |-> NoErr]),
          MkLoc(MkDef("BuiltInDerive", "-", TRUE), DefCrate,
                MkKind("Derive", ItemNode(<<"derive">>, TRUE), 0), NoEager)}

InitQueries ==
    /\ interned \in [1..MaxDepth -> ChainLocs]
    /\ calls = {interned[i] : i \in 1..MaxDepth}
    /\ oracle = MkResult(OutTree(1), NoErr)
    /\ parse_errors = <<>>
    /\ macro_arg_memo = EmptyMemo
    /\ macro_expand_memo = EmptyMemo
    /\ expand_proc_macro_memo = EmptyMemo
    /\ decl_macro_expander_memo = {}
    /\ ast_id_map_memo = FALSE
    /\ last = Idle
    /\ conv = NoConv
    /\ eval \in {MkEval(d, f) : d \in SideFiles, f \in SideFiles}
NextQueries ==
    \/ \E q \in {"parse_macro_expansion", "macro_expand"} : StartQuery(Query(q, MaxDepth))
    \/ RequestQuery
    \/ MemoizedQuery
    \/ CompleteQuery
\* salsa evaluates a request synchronously, to completion.
SpecQueries == InitQueries /\ [][NextQueries]_vars /\ WF_vars(NextQueries)

--------------------------------------------------------------------------
(* Properties *)

\* The location the last request was about.
LastLoc == lookup_intern_macro_call(last.id)
Expanded == last.op \in {"macro_expand", "expand_proc_macro"}
LimitError(count) == MkErr("macro invocation exceeds token limit", count, TOKEN_LIMIT)
EagerShortCircuit(loc) == loc.def.kind = "BuiltInEager" /\ ~loc.eager.some

\* C1 as stated: for every call that is not to include!, the tree macro_expand
\* returns has at most TOKEN_LIMIT tokens, whatever the definition kind and the
\* eager state of the call.
C1_AsStated ==
    (last.op = "macro_expand" /\ ~is_include(LastLoc.def))
        => last.run.res.value.count <= TOKEN_LIMIT

\* C1 amended: for every call that is neither to include! nor to a built-in
\* eager macro without a pre-computed argument, the tree macro_expand returns
\* has at most TOKEN_LIMIT tokens.
C1_TokenLimit ==
    (last.op = "macro_expand" /\ ~is_include(LastLoc.def) /\ ~EagerShortCircuit(LastLoc))
        => last.run.res.value.count <= TOKEN_LIMIT

\* An expander answered more than TOKEN_LIMIT tokens and macro_expand returned
\* the empty tree.
C1_Witness ==
    /\ last.op = "macro_expand"
    /\ ~is_include(LastLoc.def)
    /\ \E inv \in last.run.invoked : inv.output.value.count > TOKEN_LIMIT
    /\ last.run.res.value = EmptySubtree

\* C2: when the limit check is applied to an expander's output of more than
\* TOKEN_LIMIT tokens the result is the empty subtree with the limit diagnostic
\* naming the count and the limit, the tree and every recorded error dropped; an
\* output of at most TOKEN_LIMIT tokens is returned unchanged with its own error
\* (the eager-collection error where one was merged in before the check).
C2_LimitCheck ==
    (Expanded /\ ~is_include(LastLoc.def))
        => \A inv \in last.run.invoked :
            IF inv.output.value.count > TOKEN_LIMIT
            THEN last.run.res = MkResult(EmptySubtree, LimitError(inv.output.value.count))
            ELSE /\ last.run.res.value = inv.output.value
                 /\ last.run.res.err =
                        IF ~is_proc_macro(LastLoc.def) /\ LastLoc.eager.some
                           /\ LastLoc.eager.error # NoErr
                        THEN LastLoc.eager.error ELSE inv.output.err

\* The check replaced an oversized output that carried an expander error, for a
\* call that also carried an eager-collection error.
C2_Witness ==
    /\ last.op = "macro_expand"
    /\ LastLoc.eager.error # NoErr
    /\ \E inv \in last.run.invoked :
        /\ inv.output.value.count > TOKEN_LIMIT
        /\ inv.output.err # NoErr
        /\ last.run.res = MkResult(EmptySubtree, LimitError(inv.output.value.count))

\* A function-like call whose argument token tree does not begin and end with
\* a matched pair of delimiters.
UnbalancedCall(loc) ==
    /\ loc.kind.tag = "FnLike"
    /\ loc.kind.node.cls = "TOKEN_TREE"
    /\ <<loc.kind.node.first, loc.kind.node.last>>
            \notin {<<"(", ")">>, <<"[", "]">>, <<"{", "}">>}
Unbalanced == MkResult(NoTree, <<"unbalanced token tree">>)
PreRecordedEager(loc) == loc.def.kind = "BuiltInEager" /\ loc.eager.some

\* C3 as stated: for a function-like call whose argument does not begin and end
\* with a matched pair of delimiters, macro_arg returns no value with the
\* "unbalanced token tree" error and expanding the call invokes no expander.
C3_AsStated ==
    (last.op \in {"macro_arg", "macro_expand", "expand_proc_macro"} /\ UnbalancedCall(LastLoc))
        => /\ last.op = "macro_arg" => last.arg = Unbalanced
           /\ Expanded => (last.run.invoked = {} /\ macro_arg_memo[last.id] = Unbalanced)

\* C3 amended: the same, for every function-like call but a built-in eager
\* call that carries a pre-recorded argument (its stored argument is returned
\* unvalidated and its expander runs).
C3_Unbalanced ==
    (last.op \in {"macro_arg", "macro_expand", "expand_proc_macro"} /\ UnbalancedCall(LastLoc)
     /\ ~PreRecordedEager(LastLoc))
        => /\ last.op = "macro_arg" => last.arg = Unbalanced
           /\ Expanded => (last.run.invoked = {} /\ macro_arg_memo[last.id] = Unbalanced)

\* A call over `( .. ]` was expanded: macro_arg rejected it and nothing ran.
C3_Witness ==
    /\ last.op = "macro_expand"
    /\ LastLoc.kind.node.first = "(" /\ LastLoc.kind.node.last = "]"
    /\ LastLoc.def.kind \in {"Declarative", "BuiltIn", "BuiltInEager"}
    /\ macro_arg_memo[last.id] = Unbalanced
    /\ last.run.invoked = {}

\* C4: whenever macro_arg yields no value for a call, macro_expand (and
\* expand_proc_macro for a procedural macro) returns the empty subtree with the
\* error "invalid token tree" and invokes no expander.
C4_InvalidTokenTree ==
    (Expanded /\ ArgQuery(last.id).value = NoTree)
        => /\ last.run.res = MkResult(EmptySubtree, OtherErr("invalid token tree"))
           /\ last.run.invoked = {}
           /\ ~last.run.panicked

\* A call without a token tree was expanded by macro_expand.
C4_Witness ==
    /\ last.op = "macro_expand"
    /\ LastLoc.kind.node = MissingNode
    /\ LastLoc.kind.tag = "FnLike"
    /\ macro_arg_memo[last.id] = MkResult(NoTree, <<"missing token tree">>)
    /\ last.run.res = MkResult(EmptySubtree, OtherErr("invalid token tree"))

\* The `#[derive(..)]` attributes of the item at or before the invoking one.
DerivesUpToInvoking(loc) ==
    {p \in DerivePositions(loc.kind.node) : p <= loc.kind.index + 1}

\* C5 as stated: for a derive call, the nodes censored from the lowered input
\* are exactly the `#[derive(..)]` attributes of the item at or before the
\* invoking one, whatever doc comments and other attributes the item carries.
C5_AsStated ==
    (last.op = "macro_arg" /\ LastLoc.kind.tag = "Derive")
        => /\ last.arg.value # NoTree
           /\ last.arg.value.censored = DerivesUpToInvoking(LastLoc)

\* C6 as stated, on items without doc comments: every derive expander
\* macro_expand dispatches to, built-in derive included, receives the item with
\* the `#[derive(..)]` attributes up to and including the invoking one stripped.
C6_AsStated ==
    (last.op = "macro_expand" /\ LastLoc.kind.tag = "Derive"
     /\ \A i \in 1..Len(LastLoc.kind.node.attrs) : LastLoc.kind.node.attrs[i] # "doc")
        => \A inv \in last.run.invoked :
                inv.input.censored = DerivesUpToInvoking(LastLoc)

\* C7: for a plain attribute call the censored set is the invoking attribute
\* alone, the entry at invoc_attr_index among the item's doc comments and
\* attributes; for a function-like call the censored set is empty.
C7_AttrCensor ==
    (last.op = "macro_arg" /\ last.arg.value # NoTree)
        => /\ (LastLoc.kind.tag = "Attr" /\ ~is_attribute_derive(LastLoc.def))
                => last.arg.value.censored = {LastLoc.kind.index + 1}
           /\ LastLoc.kind.tag = "FnLike" => last.arg.value.censored = {}

\* An attribute call on `/// doc #[attr] #[derive(..)] item` had its argument
\* lowered: the attribute after the doc comment is the one censored.
C7_Witness ==
    /\ last.op = "macro_arg"
    /\ LastLoc.kind.tag = "Attr"
    /\ ~is_attribute_derive(LastLoc.def)
    /\ LastLoc.kind.node.attrs = <<"doc", "attr", "derive">>
    /\ last.arg.value.censored = {2}

C9_Interning ==
    [][/\ \A i \in Interned : i <= Len(interned') /\ interned'[i] = interned[i]
       /\ \A i, j \in 1..Len(interned') : interned'[i] = interned'[j] => i = j
       /\ last'.op = "intern_macro_call"
            => /\ last'.id \in 1..Len(interned')
               /\ interned'[last'.id] = last'.loc
               /\ \A i \in Interned : interned[i] = last'.loc => last'.id = i
       /\ last'.op = "lookup_intern_macro_call"
            => (last'.id \in Interned /\ last'.loc = interned[last'.id])]_vars

\* A location interned earlier was interned again, with other locations
\* interned in between, and got its earlier id.
C9_Witness ==
    /\ last.op = "intern_macro_call"
    /\ Len(interned) >= 2
    /\ last.id < Len(interned)
    /\ interned[last.id] = last.loc

\* C10: a run of expand_speculative leaves the memoized results of
\* macro_expand, macro_arg and expand_proc_macro as they were, so that a
\* macro_expand request after it returns what one before it returned.
C10_SpeculativeIsolation ==
    [][last'.op = "expand_speculative"
        => /\ macro_expand_memo' = macro_expand_memo
           /\ macro_arg_memo' = macro_arg_memo
           /\ expand_proc_macro_memo' = expand_proc_macro_memo]_vars

\* A speculative run expanded an alternative argument of a call whose real
\* expansion is memoized.
C10_Witness ==
    /\ last.op = "expand_speculative"
    /\ last.run.res.value # NoTree
    /\ last.run.invoked # {}
    /\ last.id \in DOMAIN macro_expand_memo

C12_AsStated ==
    last.op = "expand_speculative"
        => \A inv \in last.run.invoked :
            inv.input.kind = "lowered"
                => /\ inv.input.censored = censor_for_macro_input(LastLoc, inv.input.node)
                   /\ inv.input.delimiter =
                        IF is_proc_macro(LastLoc.def) THEN UNSPECIFIED
                        ELSE DelimiterOf(inv.input.node)

\* The expanders a run invoked.
ExpandersOf(run) == {inv.expander : inv \in run.invoked}

\* What macro_expand does for the call `loc` with nothing memoized.
RealRun(loc) ==
    LET arg == macro_arg(loc, parse_errors)
    IN macro_expand(loc, arg, expand_proc_macro(loc, arg, oracle), oracle)

\* C13 as stated: for every definition kind and eager state, a speculative run
\* that reaches the expansion invokes the expander macro_expand invokes for
\* that call, and none where macro_expand returns the input of a built-in
\* eager macro without pre-computed argument. (The pseudo-derive attribute,
\* expanded by a function of another name in the speculative path, is left out.)
C13_AsStated ==
    (/\ last.op = "expand_speculative"
     /\ last.run.res.value # NoTree
     /\ ~is_attribute_derive(LastLoc.def)
     /\ macro_arg(LastLoc, parse_errors).value # NoTree)
        => ExpandersOf(last.run) = ExpandersOf(RealRun(LastLoc))

\* C14 as stated: every compiled declarative expander that macro_expand or
\* expand_speculative fetched is keyed by the defining crate of the macro of
\* an interned declarative call, never by a calling crate.
C14_AsStated ==
    \A k \in decl_macro_expander_memo :
        \E i \in Interned :
            /\ interned[i].def.kind = "Declarative"
            /\ interned[i].def.krate = k

\* C15: a declarative expander whose definition failed to compile answers
\* every expansion attempt, in macro_expand and in expand_speculative, with the
\* empty subtree and the "invalid macro definition" error carrying its compile
\* error, and never runs the matcher; the expander itself was built.
C15_InvalidDefinition ==
    \A inv \in last.run.invoked :
        (inv.expander = "Declarative" /\ mac_err(LastLoc.def) # "")
            => /\ inv.output =
                    MkResult(EmptySubtree,
                             OtherErr("invalid macro definition: expected a token tree"))
               /\ "mbe" \notin ExpandersOf(last.run)
               /\ decl_macro_expander_memo # {}

\* macro_expand ran for a call of a macro_rules! whose rules did not compile.
C15_Witness ==
    /\ last.op = "macro_expand"
    /\ LastLoc.def.kind = "Declarative"
    /\ ~LastLoc.def.compiles
    /\ ExpandersOf(last.run) = {"Declarative"}
    /\ last.run.res.value = EmptySubtree
    /\ LastLoc.def.krate \in decl_macro_expander_memo

\* C16: for a built-in eager call without pre-computed argument whose argument
\* macro_arg extracted, macro_expand returns macro_arg's tree unchanged and
\* invokes no expander; the error is absent when macro_arg reported no errors
\* and otherwise one diagnostic of all its messages, in order, joined by ", ".
C16_EagerShortCircuit ==
    (/\ last.op = "macro_expand"
     /\ EagerShortCircuit(LastLoc)
     /\ macro_arg_memo[last.id].value # NoTree)
        => /\ last.run.res.value = macro_arg_memo[last.id].value
           /\ last.run.res.value.kind = "lowered"
           /\ last.run.invoked = {}
           /\ macro_arg_memo[last.id].err = <<>> => last.run.res.err = NoErr
           /\ macro_arg_memo[last.id].err = <<"expected SEMICOLON", "expected expression">>
                => last.run.res.err = OtherErr("expected SEMICOLON, expected expression")
           /\ macro_arg_memo[last.id].err \in ParseErrorLists

\* A built-in eager call without pre-computed argument, in a file with two
\* parse errors, was expanded: its argument came back with the joined message.
C16_Witness ==
    /\ last.op = "macro_expand"
    /\ EagerShortCircuit(LastLoc)
    /\ Len(parse_errors) = 2
    /\ last.run.res.value = macro_arg_memo[last.id].value
    /\ last.run.res.value.kind = "lowered"
    /\ last.run.res.err = OtherErr("expected SEMICOLON, expected expression")

\* C17: for a built-in eager call that carries a pre-recorded argument,
\* macro_arg returns exactly the stored tree with no error, whatever the call's
\* own syntax (well-formed, unbalanced, missing) and the parse errors of its file.
C17_StoredArgument ==
    (last.op = "macro_arg" /\ PreRecordedEager(LastLoc))
        => /\ last.arg.value = LastLoc.eager.arg
           /\ last.arg.value.delimiter = "paren"
           /\ last.arg.value.censored = {}
           /\ last.arg.err = <<>>

\* macro_arg answered for a pre-recorded eager call whose own syntax is
\* unbalanced, in a file with parse errors.
C17_Witness ==
    /\ last.op = "macro_arg"
    /\ PreRecordedEager(LastLoc)
    /\ UnbalancedCall(LastLoc)
    /\ parse_errors # <<>>
    /\ last.arg = MkResult(EagerArg, <<>>)

\* C18: for a non-procedural call carrying eager-call info whose expander ran
\* and whose output passes the token limit, macro_expand returns the
\* expander's tree, with the error recorded at eager collection if there is
\* one and the expander's own error otherwise.
C18_EagerErrorFirst ==
    (/\ last.op = "macro_expand"
     /\ ~is_proc_macro(LastLoc.def)
     /\ LastLoc.eager.some)
        => \A inv \in last.run.invoked :
            inv.output.value.count <= TOKEN_LIMIT
                => /\ last.run.res.value = inv.output.value
                   /\ last.run.res.err =
                        IF LastLoc.eager.error # NoErr THEN LastLoc.eager.error
                        ELSE inv.output.err

\* An eager call with a collection-time error was expanded by an expander that
\* reported an error of its own: the collection-time error is the one returned.
C18_Witness ==
    /\ last.op = "macro_expand"
    /\ LastLoc.def.kind = "BuiltInEager"
    /\ LastLoc.eager.some
    /\ LastLoc.eager.error = OtherErr("eager collection error")
    /\ \E inv \in last.run.invoked :
        /\ inv.output.err = OtherErr("expander error")
        /\ inv.output.value.count <= TOKEN_LIMIT
        /\ last.run.res = MkResult(inv.output.value, OtherErr("eager collection error"))

\* C19: the tree macro_arg lowers from source has its outer delimiter set to
\* unspecified when the definition is a procedural macro, and keeps the
\* delimiter the lowering produced (that of the argument's opening token) for
\* every other definition kind.
C19_DelimiterCleared ==
    (last.op = "macro_arg" /\ last.arg.value.kind = "lowered")
        => /\ LastLoc.def.kind = "ProcMacro" => last.arg.value.delimiter = UNSPECIFIED
           /\ LastLoc.def.kind # "ProcMacro"
                => last.arg.value.delimiter =
                    (CASE last.arg.value.node.first = "(" -> "paren"
                       [] last.arg.value.node.first = "[" -> "bracket"
                       [] last.arg.value.node.first = "{" -> "brace"
                       [] OTHER -> UNSPECIFIED)

\* macro_arg lowered the bracketed argument of a procedural function-like call.
C19_Witness ==
    /\ last.op = "macro_arg"
    /\ LastLoc.def.kind = "ProcMacro"
    /\ LastLoc.kind.node.first = "[" /\ LastLoc.kind.node.last = "]"
    /\ last.arg.value.kind = "lowered"
    /\ last.arg.value.delimiter = UNSPECIFIED

\* C20 as stated: no request to macro_arg, macro_expand, expand_proc_macro or
\* expand_speculative, for any interned call and any alternative node and
\* token, ends in a panic.
C20_AsStated == ~last.run.panicked

\* C21 as stated: no entry of the LRU-bounded memo of macro_expand holds the
\* expansion of a procedural-macro call.
C21_AsStated ==
    \A id \in DOMAIN macro_expand_memo : ~is_proc_macro(lookup_intern_macro_call(id).def)

\* C21 amended: the memo of expand_proc_macro, which no eviction reaches,
\* keeps the expansion of a procedural-macro call once it has one; from then
\* on every macro_expand or expand_proc_macro request for the call, whether
\* the LRU entry of macro_expand is present or was evicted, invokes no
\* expander and returns that expansion, and a request that does invoke the
\* external expander leaves its answer there: one invocation per call id.
C21_ProcOnce ==
    [][/\ \A id \in DOMAIN expand_proc_macro_memo :
            /\ id \in DOMAIN expand_proc_macro_memo'
            /\ expand_proc_macro_memo'[id] = expand_proc_macro_memo[id]
            /\ (last'.op \in {"macro_expand", "expand_proc_macro"} /\ last'.id = id)
                    => /\ last'.run.invoked = {}
                       /\ last'.run.res = expand_proc_macro_memo[id]
       /\ (/\ last'.op \in {"macro_expand", "expand_proc_macro"}
           /\ "ProcMacro" \in ExpandersOf(last'.run))
            => /\ last'.id \in DOMAIN expand_proc_macro_memo'
               /\ expand_proc_macro_memo'[last'.id] = last'.run.res]_vars

\* The LRU entry of a procedural-macro call was evicted; its expansion is
\* still memoized by expand_proc_macro.
C21_Witness ==
    /\ last.op = "evict"
    /\ is_proc_macro(LastLoc.def)
    /\ last.id \notin DOMAIN macro_expand_memo
    /\ last.id \in DOMAIN expand_proc_macro_memo
    /\ expand_proc_macro_memo[last.id].value.kind = "expanded"

\* Where an entry's span lies in its file: the start of the anchor's node plus
\* the start of the range relative to it; and where the anchor's node starts.
SourcePosition(e) == AstIdStart(e.span.anchor.file_id, e.span.anchor.ast_id) + e.span.start
AnchorPosition(e) == AstIdStart(e.span.anchor.file_id, e.span.anchor.ast_id)

\* C22 as stated: in the span map token_tree_to_syntax_node returns, of any
\* two consecutive entries the first one's file is less than or equal to the
\* second's and, within one file, its source position is less than or equal
\* to the second's.
C22_AsStated ==
    conv.done
        => \A i \in 1..(Len(conv.span_map) - 1) :
            LET a == conv.span_map[i]
                b == conv.span_map[i + 1]
            IN \/ a.span.anchor.file_id < b.span.anchor.file_id
               \/ /\ a.span.anchor.file_id = b.span.anchor.file_id
                  /\ SourcePosition(a) <= SourcePosition(b)

\* C22 amended: the entries are sorted by (file of the anchor, start of the
\* anchor's node in that file); entries whose anchor nodes start at the same
\* place keep the order the tree builder gave them, whatever their ranges.
C22_SortedByAnchor ==
    conv.done
        => \A i \in 1..(Len(conv.span_map) - 1) :
            LET a == conv.span_map[i]
                b == conv.span_map[i + 1]
            IN \/ a.span.anchor.file_id < b.span.anchor.file_id
               \/ /\ a.span.anchor.file_id = b.span.anchor.file_id
                  /\ AnchorPosition(a) < AnchorPosition(b)
               \/ /\ a.span.anchor.file_id = b.span.anchor.file_id
                  /\ AnchorPosition(a) = AnchorPosition(b)
                  /\ a.range < b.range

\* A map of three entries that the builder gave in another order was sorted:
\* the anchor of ast id 2 (starting at 10) now precedes that of ast id 1 (at 20).
C22_Witness ==
    /\ conv.done
    /\ Len(conv.span_map) = 3
    /\ conv.span_map # conv.tm
    /\ conv.span_map[1].span.anchor = [file_id |-> 1, ast_id |-> 2]
    /\ conv.span_map[2].span.anchor = [file_id |-> 1, ast_id |-> 1]
    /\ conv.span_map[3].span.anchor.file_id = 2

C24_EntryPoint ==
    conv.done
        => /\ conv.expand_to = "Statements" => conv.entry_point = "MacroStmts"
           /\ conv.expand_to = "Items" => conv.entry_point = "MacroItems"
           /\ conv.expand_to = "Pattern" => conv.entry_point = "Pattern"
           /\ conv.expand_to = "Type" => conv.entry_point = "Type"
           /\ conv.expand_to = "Expr" => conv.entry_point = "Expr"
           /\ \A e1, e2 \in ExpandTos :
                TopEntryPoint(e1) = TopEntryPoint(e2) => e1 = e2

\* expand_speculative converted the expansion of a procedural-macro call in
\* statement position.
C24_Witness ==
    /\ conv.done
    /\ conv.caller = "expand_speculative"
    /\ conv.def_kind = "ProcMacro"
    /\ conv.expand_to = "Statements"
    /\ conv.entry_point = "MacroStmts"

\* C25: a speculative run that expanded returns nothing when the span map
\* offers no candidate token, and otherwise the candidate with the fewest
\* mismatches of kind and text (0 before 1 before 2), the first in map order
\* among those equally good.
C25_BestFirst ==
    (last.op = "expand_speculative" /\ last.run.res.value # NoTree)
        => /\ last.cands = <<>> => (last.ret = "none" /\ last.token = 0)
           /\ last.cands # <<>>
                => /\ last.ret = "some"
                   /\ last.token \in 1..Len(last.cands)
                   /\ \A j \in 1..Len(last.cands) :
                        last.cands[last.token] <= last.cands[j]
                   /\ \A j \in 1..(last.token - 1) :
                        last.cands[j] > last.cands[last.token]

\* Of four candidates with 2, 1, 0 and 0 mismatches the third was returned.
C25_Witness ==
    /\ last.op = "expand_speculative"
    /\ last.run.res.value # NoTree
    /\ last.cands = <<2, 1, 0, 0>>
    /\ last.ret = "some"
    /\ last.token = 3

\* C26: for a built-in eager call without a pre-recorded argument whose syntax
\* passes validation, macro_arg returns the lowered tree of the call's node
\* together with the parse errors of the file (none when the parse is clean);
\* for every other definition kind a tree comes with no error.
C26_EagerParseErrors ==
    last.op = "macro_arg"
        => /\ (EagerShortCircuit(LastLoc) /\ ~UnbalancedCall(LastLoc)
               /\ LastLoc.kind.node.cls # "MISSING")
                => /\ last.arg.value.kind = "lowered"
                   /\ last.arg.value.node = LastLoc.kind.node
                   /\ last.arg.err = parse_errors
           /\ (LastLoc.def.kind # "BuiltInEager" /\ last.arg.value # NoTree)
                => last.arg.err = <<>>

\* macro_arg lowered the argument of an eager call in a file with two parse
\* errors and returned both.
C26_Witness ==
    /\ last.op = "macro_arg"
    /\ EagerShortCircuit(LastLoc)
    /\ Len(parse_errors) = 2
    /\ last.arg.value.kind = "lowered"
    /\ last.arg.err = parse_errors

\* C28: a result of macro_arg is a tree with no error, or a tree with a
\* non-empty error list (only for a built-in eager call without a pre-recorded
\* argument), or no tree with the single error "unbalanced token tree" or
\* "missing token tree" (only for a function-like call); derive and attribute
\* calls always get a tree.
C28_ThreeShapes ==
    last.op = "macro_arg"
        => /\ \/ last.arg.value # NoTree /\ last.arg.err = <<>>
              \/ /\ last.arg.value # NoTree /\ last.arg.err # <<>>
                 /\ EagerShortCircuit(LastLoc)
              \/ /\ last.arg.value = NoTree
                 /\ last.arg.err \in {<<"unbalanced token tree">>, <<"missing token tree">>}
                 /\ LastLoc.kind.tag = "FnLike"
           /\ LastLoc.kind.tag \in {"Derive", "Attr"} => last.arg.value # NoTree

\* macro_arg answered for a derive call in a file with parse errors: a tree and
\* no error.
C28_Witness ==
    /\ last.op = "macro_arg"
    /\ LastLoc.kind.tag = "Derive"
    /\ parse_errors # <<>>
    /\ last.arg.value.kind = "lowered"
    /\ last.arg.err = <<>>

\* C27: for a procedural-macro call whose argument was extracted, a run of
\* expand_proc_macro or macro_expand that invoked the external expander and got
\* a tree within the token limit returns exactly that tree and that error (no
\* error when the expander reported none), whatever eager-call info the call
\* carries; the memo of expand_proc_macro holds the same result, and later
\* requests return it.
C27_ProcForwarded ==
    (/\ Expanded
     /\ is_proc_macro(LastLoc.def)
     /\ macro_arg_memo[last.id].value # NoTree)
        => /\ last.run.res = expand_proc_macro_memo[last.id]
           /\ last.run.res.value # NoTree
           /\ \A inv \in last.run.invoked :
                inv.output.value.count <= TOKEN_LIMIT => last.run.res = inv.output

\* macro_expand ran the external expander for a call that carries an
\* eager-collection error; the expander's tree and its own error came back.
C27_Witness ==
    /\ last.op = "macro_expand"
    /\ is_proc_macro(LastLoc.def)
    /\ LastLoc.eager.error = OtherErr("eager collection error")
    /\ \E inv \in last.run.invoked :
        /\ inv.output = MkResult(OutTree(1), OtherErr("expander error"))
        /\ last.run.res = inv.output

\* The queries on the stack of the evaluation, outermost first.
Active == [i \in 1..Len(eval.stack) |-> Query(eval.stack[i].q, eval.stack[i].id)]

\* No query is requested while it is being evaluated.
NoQueryCycle == \A i, j \in 1..Len(Active) : i < j => Active[i] # Active[j]

\* A measure that every request lowers: the file first, then the query.
QueryRank(query) ==
    6 * query.id
    + (CASE query.q = "macro_arg" -> 0
         [] query.q = "expand_proc_macro" -> 1
         [] query.q = "macro_expand" -> 2
         [] query.q = "parse_macro_expansion" -> 3
         [] OTHER -> 4)
RankDecreases ==
    \A i \in 1..(Len(Active) - 1) : QueryRank(Active[i + 1]) < QueryRank(Active[i])

\* The expansion macro_expand and macro_arg request is that of the file the
\* call is written in.
EnclosingOnly ==
    \A i \in 1..(Len(Active) - 1) :
        (Active[i].q \in {"macro_expand", "macro_arg"}
         /\ Active[i + 1].q = "parse_macro_expansion")
            => Active[i + 1].id = EnclosingFile(Active[i].id)

\* macro_expand of a built-in eager call without a pre-recorded argument
\* requests macro_arg of the call and nothing else.
EagerReturnsInput ==
    \A i \in 1..Len(Active) :
        (Active[i].q = "macro_expand"
         /\ EagerShortCircuit(lookup_intern_macro_call(Active[i].id)))
            => /\ i < Len(Active) => Active[i + 1] = Query("macro_arg", Active[i].id)
               /\ eval.stack[i].pc <= 2

====
